---- MODULE Spec2Model ----
(***************************************************************************)
(* Model of scripts/update_events.py: two venue fetchers, the aggregation  *)
(* in main, the HTML renderer and the marker-region page updater.          *)
(*                                                                         *)
(* Text is a sequence of tokens.  A token is either one character (the    *)
(* backslash, the newline, the carriage return, the letters "d", "n" and   *)
(* "r", the punctuation "."), or the group reference "g<0>" of a template, *)
(* or a fixed literal of the script that is kept whole (the two markers,    *)
(* the literals of the renderer, the site origins).  The two markers       *)
(* cannot overlap each other or themselves ("<" occurs only as their first *)
(* character), so a text splits into marker tokens and other tokens in one *)
(* way only and matching on tokens is matching on characters.              *)
(***************************************************************************)
EXTENDS Integers, Sequences, FiniteSets, TLC

VARIABLES
    pc,             \* position of the run
    file,           \* characters of teaching.html as stored
    old_file,       \* characters of teaching.html before the last call
    all_events,     \* main: the aggregated events
    events_html,    \* main: the rendered fragment
    esalen_events,  \* main: what fetch_esalen_events returned
    sfdc_events,    \* fetch_sfdc_events: its events list, then what it returned
    ep,             \* fetch_sfdc_events: index of the next page-data endpoint
    requests,       \* log of the HTTP requests made, in order
    steps,          \* log of the steps of main taken, in order
    result,         \* what the last call of update_teaching_page returned
    read_text,      \* the text read_text() gave the last call
    writes,         \* how many times that call wrote the file
    calls           \* calls of update_teaching_page made

vars == <<pc, file, old_file, all_events, events_html, esalen_events, sfdc_events, ep,
          requests, steps, result, read_text, writes, calls>>

----------------------------------------------------------------------------
(* Bounds of the model *)

MaxDocLen == 4
MaxUpdEvents == 1
MaxEvents == 2
MaxCalls == 2

----------------------------------------------------------------------------
(* Configuration and literals *)

EVENTS_START_MARKER == "<!-- EVENTS_START -->"
EVENTS_END_MARKER == "<!-- EVENTS_END -->"

BS == "\\"
NL == "\n"
CR == "\r"
GROUP0 == "g<0>"

(* os.linesep, what write_text writes for a newline: "\n" on POSIX *)
LINESEP == <<NL>>
INDENT == "        "

PLACEHOLDER ==
    "        <p style=\"color: var(--color-text-light);\">No upcoming events scheduled. Check back soon or <a href=\"http://eepurl.com/gOSn91\" target=\"_blank\" rel=\"noopener\">join the mailing list</a> for updates.</p>"
LIST_OPEN == "        <div class=\"services-list\">"
LIST_CLOSE == "        </div>"
BLOCK_HEAD ==
    "          <div style=\"padding: 1rem 0; border-bottom: 1px solid var(--color-border);\">\n            <strong>"
BLOCK_AFTER_TITLE ==
    "</strong><br>\n            <span style=\"color: var(--color-text-light);\">"
BLOCK_AFTER_LINE == "</span><br>\n            <a href=\""
BLOCK_TAIL ==
    "\" target=\"_blank\" rel=\"noopener\">Register →</a>\n          </div>"
JOINER == " · "

ESALEN_FACULTY == "https://www.esalen.org/faculty/dan-zigmond"
ESALEN_ORIGIN == "https://www.esalen.org"
ESALEN_LOCATION == "Esalen Institute, Big Sur"
SFDC_ORIGIN == "https://sfdharmacollective.org"
SFDC_UPCOMING == "https://sfdharmacollective.org/upcoming-events"
SFDC_LOCATION == "SF Dharma Collective, San Francisco · Hybrid (in-person and online)"
SFDC_DEFAULT_TITLE == "Event with Dan Zigmond"
SEVEN_PM == ", 7pm"

page_data_urls ==
    <<"https://sfdharmacollective.org/page-data/upcoming-events/page-data.json",
      "https://sfdharmacollective.org/page-data/events/page-data.json">>

(* tokens that begin with "http" *)
HttpTokens == {ESALEN_ORIGIN, SFDC_ORIGIN, SFDC_UPCOMING, "https://example.org/r"}

(* tokens whose lower-cased text holds "dan" *)
DanTokens == {"Dan Zigmond", SFDC_DEFAULT_TITLE}

(* Tokens that begin with an ASCII letter naming no escape of a replacement *)
(* template; the token "n" names the newline.                              *)
BadEscapeLetters ==
    {"d", "Retreat", "Mind", "Body", "Dan Zigmond", "Evening Sit", "Other",
     "Dharma Talk", "Event", "May 1, 2025", "May 1-3, 2025",
     ESALEN_LOCATION, SFDC_LOCATION, SFDC_DEFAULT_TITLE}
    \cup HttpTokens \cup {page_data_urls[i] : i \in 1..Len(page_data_urls)}
    \cup {ESALEN_FACULTY}

----------------------------------------------------------------------------
(* Sequence helpers *)

RECURSIVE SeqsUpTo(_, _)
SeqsUpTo(S, n) ==
    IF n = 0 THEN {<<>>}
    ELSE LET shorter == SeqsUpTo(S, n - 1)
         IN  shorter \cup {Append(s, x) : s \in {t \in shorter : Len(t) = n - 1}, x \in S}

(* sep.join(parts), each part a text *)
RECURSIVE join(_, _)
join(sep, parts) ==
    IF parts = <<>> THEN <<>>
    ELSE IF Len(parts) = 1 THEN parts[1]
    ELSE parts[1] \o sep \o join(sep, Tail(parts))

(* index of the first occurrence of tok in text at or after from, 0 if none *)
FirstAt(text, tok, from) ==
    LET hits == {i \in from..Len(text) : text[i] = tok}
    IN  IF hits = {} THEN 0 ELSE CHOOSE i \in hits : \A j \in hits : i <= j

----------------------------------------------------------------------------
(* generate_events_html *)

date_location_unfiltered(event) == <<event.date, event.location>>

date_location(event) ==
    (IF event.date # <<>> THEN <<event.date>> ELSE <<>>)
    \o (IF event.location # <<>> THEN <<event.location>> ELSE <<>>)

event_block(event) ==
    <<BLOCK_HEAD>> \o event.title \o <<BLOCK_AFTER_TITLE>>
    \o join(<<JOINER>>, date_location(event))
    \o <<BLOCK_AFTER_LINE>> \o event.url \o <<BLOCK_TAIL>>

generate_events_html(events) ==
    IF events = <<>> THEN <<PLACEHOLDER>>
    ELSE LET html_parts == <<(<<LIST_OPEN>>)>>
                           \o [i \in 1..Len(events) |-> event_block(events[i])]
                           \o <<(<<LIST_CLOSE>>)>>
         IN  join(<<NL>>, html_parts)

----------------------------------------------------------------------------
(* update_teaching_page *)

(* Path.read_text(): text mode with universal newlines, "\r\n" and a lone *)
(* "\r" are read as "\n".                                                  *)
read_piece(raw, i) ==
    IF raw[i] # CR THEN <<raw[i]>>
    ELSE IF i < Len(raw) /\ raw[i + 1] = NL THEN <<>>
    ELSE <<NL>>

RECURSIVE concat_range(_, _, _)
concat_range(pieces, lo, hi) ==
    IF lo > hi THEN <<>>
    ELSE IF lo = hi THEN pieces[lo]
    ELSE LET mid == (lo + hi) \div 2
         IN  concat_range(pieces, lo, mid) \o concat_range(pieces, mid + 1, hi)

path_read_text(raw) ==
    concat_range([i \in 1..Len(raw) |-> read_piece(raw, i)], 1, Len(raw))

(* Path.write_text(data): text mode, every "\n" is written as os.linesep; *)
(* the newlines inside the renderer's literals are written the same way,   *)
(* which leaves them as they are where os.linesep is "\n".                 *)
path_write_text(data) ==
    concat_range([i \in 1..Len(data) |-> IF data[i] = NL THEN LINESEP ELSE <<data[i]>>],
                 1, Len(data))

(* The replacement string of re.sub is a template: "\\" stands for one     *)
(* backslash, "\n" for a newline, "\r" for a carriage return, "\g<0>" for  *)
(* the text of the match being replaced; a backslash before another ASCII  *)
(* letter is an error (bad escape), a backslash before any other character *)
(* stays.  Digits and other group references are not in the token alphabet.*)
(* A backslash starts an escape when an even number of backslashes run up  *)
(* to it; the token after it is taken by the escape.                       *)
starts_escape(t, i) ==
    /\ t[i] = BS
    /\ LET before == {j \in 1..(i - 1) : \A k \in j..(i - 1) : t[k] = BS}
       IN  Cardinality(before) % 2 = 0

expand_piece(t, i, matched) ==
    IF starts_escape(t, i)
    THEN (IF i = Len(t) THEN <<BS>>
          ELSE IF t[i + 1] = "n" THEN <<NL>>
          ELSE IF t[i + 1] = "r" THEN <<CR>>
          ELSE IF t[i + 1] = GROUP0 THEN matched
          ELSE <<BS>>)
    ELSE IF i > 1 /\ starts_escape(t, i - 1)
    THEN (IF t[i] \in {BS, "n", "r", GROUP0} THEN <<>> ELSE <<t[i]>>)
    ELSE <<t[i]>>

(* whether the template compiles (re.sub compiles it before it searches) *)
template_ok(t) ==
    \A i \in 1..Len(t) :
        starts_escape(t, i) => i < Len(t) /\ t[i + 1] \notin BadEscapeLetters

(* the template expanded for one match *)
expand_template(t, matched) ==
    concat_range([i \in 1..Len(t) |-> expand_piece(t, i, matched)], 1, Len(t))

(* The matches of START.*?END (DOTALL) in content at or after position i,  *)
(* leftmost first, non-overlapping: each runs from a start marker to the   *)
(* first end marker after it.                                              *)
RECURSIVE finditer(_, _)
finditer(content, i) ==
    LET s == FirstAt(content, EVENTS_START_MARKER, i)
        e == IF s = 0 THEN 0 ELSE FirstAt(content, EVENTS_END_MARKER, s + 1)
    IN  IF e = 0 THEN <<>> ELSE <<(<<s, e>>)>> \o finditer(content, e + 1)

(* re.sub(pattern, replacement, content, flags=re.DOTALL) with count = 0:  *)
(* every match is replaced by the template expanded for it                 *)
RECURSIVE re_sub_from(_, _, _)
re_sub_from(content, template, i) ==
    LET s == FirstAt(content, EVENTS_START_MARKER, i)
        e == IF s = 0 THEN 0 ELSE FirstAt(content, EVENTS_END_MARKER, s + 1)
    IN  IF e = 0 THEN SubSeq(content, i, Len(content))
        ELSE SubSeq(content, i, s - 1)
             \o expand_template(template, SubSeq(content, s, e))
             \o re_sub_from(content, template, e + 1)

re_sub(content, template) == re_sub_from(content, template, 1)

replacement(html) ==
    <<EVENTS_START_MARKER, NL>> \o html \o <<NL, INDENT, EVENTS_END_MARKER>>

(* One call on a file holding the characters raw: what it raised or        *)
(* returned, the text it read, the characters the file holds afterwards    *)
(* and how many times it was written.                                      *)
update_always_writes(raw, html) ==
    LET content == path_read_text(raw)
    IN  IF ~template_ok(replacement(html))
        THEN [ret |-> "raised", read |-> content, file |-> raw, writes |-> 0]
        ELSE [ret |-> "True", read |-> content,
              file |-> path_write_text(re_sub(content, replacement(html))),
              writes |-> 1]

update_teaching_page(raw, html) ==
    LET content == path_read_text(raw)
        new_content == re_sub(content, replacement(html))
    IN  IF ~template_ok(replacement(html))
        THEN [ret |-> "raised", read |-> content, file |-> raw, writes |-> 0]
        ELSE IF new_content # content
        THEN [ret |-> "True", read |-> content,
              file |-> path_write_text(new_content), writes |-> 1]
        ELSE [ret |-> "False", read |-> content, file |-> raw, writes |-> 0]

(* an event record *)
Event(t, d, l, u) == [title |-> t, date |-> d, location |-> l, url |-> u]

----------------------------------------------------------------------------
(* Venue fetchers *)

startswith_http(text) == text # <<>> /\ text[1] \in HttpTokens

contains_dan(text) == \E i \in 1..Len(text) : text[i] \in DanTokens

(* The loop of fetch_esalen_events over the links whose href matches       *)
(* /workshops/.  A link is [href, text, date]: its href, its stripped text *)
(* and the date the pattern finds in the text of its enclosing div, li or  *)
(* article (empty when there is no such parent or no date in it).          *)
RECURSIVE esalen_extract(_)
esalen_extract(links) ==
    IF links = <<>> THEN <<>>
    ELSE LET link == Head(links)
             workshop_url == IF startswith_http(link.href) THEN link.href
                             ELSE <<ESALEN_ORIGIN>> \o link.href
             title == link.text
         IN  (IF title # <<>> /\ ~contains_dan(title)
              THEN <<Event(title, link.date, <<ESALEN_LOCATION>>, workshop_url)>>
              ELSE <<>>)
             \o esalen_extract(Tail(links))

(* A response is [outcome, links]: the request raised ("error"), or        *)
(* answered with a non-success status ("status", raise_for_status raises), *)
(* or answered 200 ("ok"); links are those of the page that came back.     *)
esalen_ignores_status(resp) ==
    [raised |-> FALSE,
     events |-> IF resp.outcome = "error" THEN <<>> ELSE esalen_extract(resp.links)]

fetch_esalen_events(resp) ==
    [raised |-> FALSE,
     events |-> IF resp.outcome # "ok" THEN <<>> ELSE esalen_extract(resp.links)]

(* The loop over the edges of one page-data payload.  An edge is           *)
(* [dict, zig, title, url, date]: whether it is a mapping (edge.get raises *)
(* when it is not), whether its node mentions zigmond, and the node's      *)
(* title (or name), url (or slug) and date (or startDate).  The loop stops *)
(* at the first edge that raises and keeps what it appended before.        *)
RECURSIVE sfdc_edges(_, _)
sfdc_edges(events, edges) ==
    IF edges = <<>> THEN events
    ELSE LET edge == Head(edges)
             event_url == IF edge.url # <<>> /\ ~startswith_http(edge.url)
                          THEN <<SFDC_ORIGIN>> \o edge.url ELSE edge.url
             date_str == IF edge.date # <<>> THEN edge.date \o <<SEVEN_PM>> ELSE edge.date
             event == Event(IF edge.title # <<>> THEN edge.title ELSE <<SFDC_DEFAULT_TITLE>>,
                            date_str, <<SFDC_LOCATION>>,
                            IF event_url # <<>> THEN event_url ELSE <<SFDC_UPCOMING>>)
         IN  IF ~edge.dict THEN events
             ELSE sfdc_edges(IF edge.zig THEN Append(events, event) ELSE events,
                             Tail(edges))

(* One pass of the loop over page_data_urls.  A response is                *)
(* [outcome, mentions, edges]: "error" (the request raised), "status"      *)
(* (status other than 200), "malformed" (response.json() raised) or "ok";  *)
(* mentions says whether the payload holds zigmond or dan.                 *)
sfdc_json_endpoint(events, resp) ==
    IF resp.outcome = "ok" /\ resp.mentions THEN sfdc_edges(events, resp.edges)
    ELSE events

(* line 122: if not events *)
fallback_always(events) == TRUE

needs_fallback(events) == events = <<>>

(* The loop of the HTML fallback.  An element is                           *)
(* [zig, has_title, title, has_link, href].                                *)
RECURSIVE sfdc_elems(_)
sfdc_elems(elems) ==
    IF elems = <<>> THEN <<>>
    ELSE LET event == Head(elems)
             title == IF event.has_title THEN event.title ELSE <<"Event">>
             href == IF event.has_link THEN event.href ELSE <<SFDC_UPCOMING>>
             event_url == IF startswith_http(href) THEN href ELSE <<SFDC_ORIGIN>> \o href
         IN  (IF event.zig
              THEN <<Event(title, <<>>, <<SFDC_LOCATION>>, event_url)>>
              ELSE <<>>)
             \o sfdc_elems(Tail(elems))

(* A response is [outcome, mentions, elems] *)
sfdc_html_fallback(resp) ==
    IF resp.outcome = "ok" /\ resp.mentions THEN sfdc_elems(resp.elems) ELSE <<>>

(* list.extend *)
RECURSIVE extend_unique(_, _)
extend_unique(list, items) ==
    IF items = <<>> THEN list
    ELSE extend_unique(IF \E i \in 1..Len(list) : list[i] = Head(items)
                       THEN list ELSE Append(list, Head(items)),
                       Tail(items))

extend(list, items) == list \o items

----------------------------------------------------------------------------
(* Inputs of the renderer and of the page updater *)

(* titles holding a backslash, a template escape or a marker *)
SpecialTitles ==
    {<<"d", BS, "d">>, <<BS, BS>>, <<BS, "n">>, <<BS, "r">>, <<BS, GROUP0>>,
     <<"d", BS>>, <<EVENTS_END_MARKER>>, <<EVENTS_START_MARKER>>}

(* the four date/location cases, and the special titles *)
Events ==
    {Event(<<"Retreat">>, d, l, <<"https://example.org/r">>) :
        d \in {<<>>, <<"May 1, 2025">>}, l \in {<<>>, <<ESALEN_LOCATION>>}}
    \cup {Event(t, <<"May 1, 2025">>, <<ESALEN_LOCATION>>, <<"https://example.org/r">>) :
            t \in SpecialTitles}

(* events whose fragments the page updater is given *)
UpdEvents ==
    {Event(t, <<>>, <<ESALEN_LOCATION>>, <<"https://example.org/r">>) :
        t \in {<<"Retreat">>} \cup SpecialTitles}

DocTokens == {EVENTS_START_MARKER, EVENTS_END_MARKER, ".", CR, NL}

Docs == SeqsUpTo(DocTokens, MaxDocLen)

InitCommon ==
    /\ events_html = <<>>
    /\ esalen_events = <<>>
    /\ sfdc_events = <<>>
    /\ ep = 1
    /\ requests = <<>>
    /\ steps = <<>>
    /\ result = "none"
    /\ read_text = <<>>
    /\ old_file = file
    /\ writes = 0
    /\ calls = 0

(* the renderer applied to the aggregated events (main, line 214) *)
Render ==
    /\ pc = "render"
    /\ events_html' = generate_events_html(all_events)
    /\ steps' = Append(steps, "render")
    /\ pc' = "update"
    /\ UNCHANGED <<file, all_events, esalen_events, sfdc_events, ep, requests,
                   result, read_text, old_file, writes, calls>>

(* one call of update_teaching_page on the target file *)
CallUpdate ==
    /\ pc = "update"
    /\ calls < MaxCalls
    /\ LET r == update_teaching_page(file, events_html)
       IN  /\ read_text' = r.read
           /\ old_file' = file
           /\ file' = r.file
           /\ result' = r.ret
           /\ writes' = r.writes
    /\ calls' = calls + 1
    /\ UNCHANGED <<pc, all_events, events_html, esalen_events, sfdc_events, ep,
                   requests, steps>>

InitRender ==
    /\ pc = "render"
    /\ file = <<>>
    /\ all_events \in SeqsUpTo(Events, MaxEvents)
    /\ InitCommon

SpecRender == InitRender /\ [][Render]_vars

InitUpdate ==
    /\ pc = "render"
    /\ file \in Docs
    /\ all_events \in SeqsUpTo(UpdEvents, MaxUpdEvents)
    /\ InitCommon

NextUpdate == Render \/ CallUpdate

SpecUpdate == InitUpdate /\ [][NextUpdate]_vars

----------------------------------------------------------------------------
(* main: what the network may answer, and the steps of one run *)

MaxLinks == 2
MaxEdges == 2
MaxElems == 2

Links ==
    {[href |-> <<"/workshops/", "d">>, text |-> <<"Retreat">>, date |-> <<"May 1-3, 2025">>],
     [href |-> <<ESALEN_ORIGIN, "/workshops/", "d">>, text |-> <<"Mind", BS, "Body">>,
      date |-> <<>>],
     [href |-> <<"/workshops/", "d">>, text |-> <<"Dan Zigmond">>, date |-> <<>>],
     [href |-> <<"/workshops/", ".">>, text |-> <<>>, date |-> <<>>]}

EsalenResponses ==
    {[outcome |-> "error", links |-> <<>>]}
    \cup [outcome : {"status", "ok"}, links : SeqsUpTo(Links, MaxLinks)]

Edges ==
    {[dict |-> FALSE, zig |-> FALSE, title |-> <<>>, url |-> <<>>, date |-> <<>>],
     [dict |-> TRUE, zig |-> TRUE, title |-> <<"Evening Sit">>, url |-> <<"/events/", "d">>,
      date |-> <<"May 1, 2025">>],
     [dict |-> TRUE, zig |-> TRUE, title |-> <<>>, url |-> <<>>, date |-> <<>>],
     [dict |-> TRUE, zig |-> FALSE, title |-> <<"Other">>, url |-> <<SFDC_UPCOMING>>,
      date |-> <<>>]}

(* a payload holding a node that mentions zigmond mentions zigmond *)
JsonResponses ==
    [outcome : {"error", "status", "malformed"}, mentions : {FALSE}, edges : {<<>>}]
    \cup {r \in [outcome : {"ok"}, mentions : BOOLEAN, edges : SeqsUpTo(Edges, MaxEdges)] :
            (\E i \in 1..Len(r.edges) : r.edges[i].zig) => r.mentions}

Elems ==
    {[zig |-> TRUE, has_title |-> TRUE, title |-> <<"Dharma Talk">>, has_link |-> TRUE,
      href |-> <<"/events/", "d">>],
     [zig |-> TRUE, has_title |-> FALSE, title |-> <<>>, has_link |-> FALSE, href |-> <<>>],
     [zig |-> FALSE, has_title |-> TRUE, title |-> <<"Other">>, has_link |-> TRUE,
      href |-> <<SFDC_UPCOMING>>]}

HtmlResponses ==
    [outcome : {"error", "status"}, mentions : {FALSE}, elems : {<<>>}]
    \cup {r \in [outcome : {"ok"}, mentions : BOOLEAN, elems : SeqsUpTo(Elems, MaxElems)] :
            (\E i \in 1..Len(r.elems) : r.elems[i].zig) => r.mentions}

MainDocs ==
    {<<".", EVENTS_START_MARKER, ".", EVENTS_END_MARKER, ".">>,
     <<".", EVENTS_START_MARKER, NL, PLACEHOLDER, NL, INDENT, EVENTS_END_MARKER, ".">>,
     <<".">>}

(* an entry of the request log: the URL, how the request went, whether the *)
(* request or the handling of its payload raised or met a non-success      *)
(* status, and the number of events the fetcher held when it was made      *)
Request(url, outcome, failed, have) ==
    [url |-> url, outcome |-> outcome, failed |-> failed, have |-> have]

json_failed(resp) ==
    \/ resp.outcome # "ok"
    \/ resp.mentions /\ \E i \in 1..Len(resp.edges) : ~resp.edges[i].dict

Init ==
    /\ pc = "esalen"
    /\ file \in MainDocs
    /\ all_events = <<>>
    /\ InitCommon

(* main, lines 198-200 *)
FetchEsalen ==
    /\ pc = "esalen"
    /\ \E resp \in EsalenResponses :
         LET r == fetch_esalen_events(resp)
         IN  /\ requests' = Append(requests, Request(ESALEN_FACULTY, resp.outcome,
                                                 resp.outcome # "ok", 0))
             /\ steps' = Append(steps, "esalen")
             /\ IF r.raised
                THEN /\ pc' = "crashed"
                     /\ UNCHANGED <<esalen_events, all_events>>
                ELSE /\ pc' = "sfdc_json"
                     /\ esalen_events' = r.events
                     /\ all_events' = extend(all_events, r.events)
    /\ UNCHANGED <<file, events_html, sfdc_events, ep, result, read_text, old_file, writes, calls>>

(* fetch_sfdc_events, lines 84-119: one page-data endpoint *)
SfdcJson ==
    /\ pc = "sfdc_json"
    /\ \E resp \in JsonResponses :
         /\ requests' = Append(requests,
                               Request(page_data_urls[ep], resp.outcome,
                                       json_failed(resp), Len(sfdc_events)))
         /\ sfdc_events' = sfdc_json_endpoint(sfdc_events, resp)
    /\ ep' = ep + 1
    /\ pc' = IF ep = Len(page_data_urls) THEN "sfdc_html" ELSE "sfdc_json"
    /\ UNCHANGED <<file, all_events, events_html, esalen_events, steps, result,
                   read_text, old_file, writes, calls>>

(* fetch_sfdc_events, lines 121-150, and main, lines 202-204 *)
SfdcFallback ==
    /\ pc = "sfdc_html"
    /\ needs_fallback(sfdc_events)
    /\ \E resp \in HtmlResponses :
         LET events == sfdc_events \o sfdc_html_fallback(resp)
         IN  /\ requests' = Append(requests,
                                   Request(SFDC_UPCOMING, resp.outcome,
                                           resp.outcome # "ok", Len(sfdc_events)))
             /\ sfdc_events' = events
             /\ all_events' = extend(all_events, events)
    /\ steps' = Append(steps, "sfdc")
    /\ pc' = "render"
    /\ UNCHANGED <<file, events_html, esalen_events, ep, result, read_text, old_file, writes, calls>>

SfdcReturn ==
    /\ pc = "sfdc_html"
    /\ ~needs_fallback(sfdc_events)
    /\ all_events' = extend(all_events, sfdc_events)
    /\ steps' = Append(steps, "sfdc")
    /\ pc' = "render"
    /\ UNCHANGED <<file, events_html, esalen_events, sfdc_events, ep, requests, result,
                   read_text, old_file, writes, calls>>

(* main, lines 215-217 *)
MainUpdate ==
    /\ pc = "update"
    /\ LET r == update_teaching_page(file, events_html)
       IN  /\ read_text' = r.read
           /\ old_file' = file
           /\ file' = r.file
           /\ result' = r.ret
           /\ writes' = r.writes
           /\ pc' = IF r.ret = "raised" THEN "crashed" ELSE "done"
    /\ calls' = calls + 1
    /\ steps' = Append(steps, "update")
    /\ UNCHANGED <<all_events, events_html, esalen_events, sfdc_events, ep, requests>>

Next == FetchEsalen \/ SfdcJson \/ SfdcFallback \/ SfdcReturn \/ Render \/ MainUpdate

Spec == Init /\ [][Next]_vars

----------------------------------------------------------------------------
(* Properties *)

Range(seq) == {seq[i] : i \in 1..Len(seq)}

IsPrefix(a, b) == Len(a) <= Len(b) /\ SubSeq(b, 1, Len(a)) = a

MainOrder == <<"esalen", "sfdc", "render", "update">>

EsalenReturned == pc \in {"sfdc_json", "sfdc_html", "render", "update", "done"}

SfdcReturned == pc \in {"render", "update", "done"}

SfdcRequests == SubSeq(requests, 2, Len(requests))

(* the date/location line the renderer is to give an event *)
ExpectedLine(event) ==
    IF event.date # <<>> /\ event.location # <<>>
    THEN event.date \o <<JOINER>> \o event.location
    ELSE IF event.date # <<>> THEN event.date
    ELSE IF event.location # <<>> THEN event.location
    ELSE <<>>

ExpectedBlock(event) ==
    <<BLOCK_HEAD>> \o event.title \o <<BLOCK_AFTER_TITLE>> \o ExpectedLine(event)
    \o <<BLOCK_AFTER_LINE>> \o event.url \o <<BLOCK_TAIL>>

RECURSIVE ExpectedBlocks(_)
ExpectedBlocks(events) ==
    IF events = <<>> THEN <<>>
    ELSE <<NL>> \o ExpectedBlock(Head(events)) \o ExpectedBlocks(Tail(events))

(* C4: the renderer gives the fixed placeholder for no events; otherwise   *)
(* the opening wrapper line, one block per event in input order (title,    *)
(* date/location line, link to the url), and the closing wrapper line; the *)
(* line holds the non-empty ones of date and location, joined by the       *)
(* joiner only when both are non-empty.                                    *)
C4_RenderStructure ==
    pc = "update" =>
        IF all_events = <<>> THEN events_html = <<PLACEHOLDER>>
        ELSE events_html
             = <<LIST_OPEN>> \o ExpectedBlocks(all_events) \o <<NL, LIST_CLOSE>>

C4_Witness ==
    /\ pc = "update"
    /\ Len(all_events) = 2
    /\ all_events[1].date = <<>> /\ all_events[1].location # <<>>
    /\ all_events[2].date # <<>> /\ all_events[2].location = <<>>
    /\ events_html # <<PLACEHOLDER>>

(* C9: the events main hands to the renderer are the Esalen fetcher's      *)
(* output followed by the SFDC fetcher's output, nothing dropped, merged   *)
(* or reordered.                                                           *)
C9_Concatenation ==
    SfdcReturned =>
        /\ all_events = esalen_events \o sfdc_events
        /\ Len(all_events) = Len(esalen_events) + Len(sfdc_events)

C9_Witness ==
    /\ pc = "render"
    /\ Len(esalen_events) = 2 /\ esalen_events[1] = esalen_events[2]
    /\ Len(sfdc_events) = 2 /\ sfdc_events[1] # sfdc_events[2]
    /\ Len(all_events) = 4

(* C8: fetch_sfdc_events requests the page-data endpoints in list order,   *)
(* whatever the first one did, and requests the upcoming-events page if    *)
(* and only if the page-data endpoints yielded no event.                   *)
C8_FallbackOrder ==
    /\ Len(SfdcRequests) <= Len(page_data_urls) + 1
    /\ \A i \in 1..Len(SfdcRequests) :
         SfdcRequests[i].url = IF i <= Len(page_data_urls) THEN page_data_urls[i]
                               ELSE SFDC_UPCOMING
    /\ pc = "sfdc_html" => Len(SfdcRequests) = Len(page_data_urls)
    /\ SfdcReturned =>
         /\ Len(SfdcRequests) >= Len(page_data_urls)
         /\ LET asked == Len(SfdcRequests) > Len(page_data_urls)
                yield == IF asked THEN SfdcRequests[Len(SfdcRequests)].have
                         ELSE Len(sfdc_events)
            IN  asked <=> yield = 0

C8_Witness ==
    /\ pc = "render"
    /\ Len(SfdcRequests) = 2
    /\ SfdcRequests[1].outcome = "error"
    /\ SfdcRequests[2].outcome = "ok"
    /\ sfdc_events # <<>>

(* C5 as claimed: no fetcher raises, and a fetcher any of whose requests   *)
(* met a non-success status or any error, also part-way through the        *)
(* extraction, returns the empty sequence.                                 *)
C5_Original ==
    /\ pc = "crashed" => steps[Len(steps)] = "update"
    /\ EsalenReturned /\ requests[1].failed => esalen_events = <<>>
    /\ SfdcReturned /\ (\E i \in 1..Len(SfdcRequests) : SfdcRequests[i].failed)
         => sfdc_events = <<>>

(* C5, amended: no fetcher raises; fetch_esalen_events returns the empty   *)
(* sequence when its request raises or meets a non-success status;         *)
(* fetch_sfdc_events returns the empty sequence when every request it made *)
(* raised, met a non-success status or carried an unparsable payload.      *)
C5_Amended ==
    /\ pc = "crashed" => steps[Len(steps)] = "update"
    /\ EsalenReturned /\ requests[1].outcome # "ok" => esalen_events = <<>>
    /\ SfdcReturned /\ (\A i \in 1..Len(SfdcRequests) : SfdcRequests[i].outcome # "ok")
         => sfdc_events = <<>>

C5_Witness ==
    /\ pc = "render"
    /\ requests[1].outcome = "status"
    /\ Len(SfdcRequests) = 3
    /\ SfdcRequests[1].outcome = "status"
    /\ SfdcRequests[2].outcome = "malformed"
    /\ SfdcRequests[3].outcome = "error"
    /\ all_events = <<>>

(* C7: the steps of main occur once each in the order Esalen fetch, SFDC   *)
(* fetch, render, page update, and every run reaches the page update and   *)
(* then completes normally.                                                *)
C7_Claim ==
    /\ IsPrefix(steps, MainOrder)
    /\ pc # "crashed"
    /\ pc = "done" => steps = MainOrder

(* C6: a call writes the file at most once, and only when the replaced     *)
(* text differs from the text read; it returns True exactly when it wrote  *)
(* and False, the file untouched, when the replaced text is the text read. *)
C6_WriteOnlyOnChange ==
    calls > 0 =>
        /\ writes \in {0, 1}
        /\ writes = 1 <=> result = "True"
        /\ writes = 1 => file # read_text
        /\ writes = 0 => file = old_file
        /\ result = "False" <=>
             /\ template_ok(replacement(events_html))
             /\ re_sub(read_text, replacement(events_html)) = read_text

C6_Witness ==
    /\ calls = 1
    /\ result = "True"
    /\ writes = 1
    /\ file # old_file

(* C1: a second call with the same fragment that returns writes nothing:   *)
(* it leaves the file as it is and returns False.                          *)
C1_Claim ==
    calls = 2 /\ result # "raised" =>
        result = "False" /\ writes = 0 /\ file = old_file

(* whether text holds a start marker with an end marker after it *)
HasRegion(text) == finditer(text, 1) # <<>>

(* whether part is in text from position at on *)
OccursAt(text, at, part) ==
    /\ at >= 1
    /\ at + Len(part) - 1 <= Len(text)
    /\ SubSeq(text, at, at + Len(part) - 1) = part

(* C3: after a call on a document with a start marker followed by an end   *)
(* marker, the marker region is the start marker, a newline, the fragment  *)
(* verbatim, a newline, the indentation and the end marker.                *)
C3_Claim ==
    calls = 1 /\ HasRegion(read_text) =>
        OccursAt(file, FirstAt(file, EVENTS_START_MARKER, 1), replacement(events_html))

(* C10: on a document without a start marker followed by an end marker a   *)
(* call writes nothing, leaves the file as it is and returns False.        *)
C10_Claim ==
    calls > 0 /\ ~HasRegion(read_text) =>
        result = "False" /\ writes = 0 /\ file = old_file

(* C2: a call touches only the first span from a start marker to the next *)
(* end marker; the characters of the file before that span and all the     *)
(* characters after it, further marker pairs included, stay as they were.  *)
C2_Claim ==
    calls > 0 /\ HasRegion(old_file) =>
        LET m == finditer(old_file, 1)[1]
            after == Len(old_file) - m[2]
        IN  /\ Len(file) >= m[1] - 1 + after
            /\ SubSeq(file, 1, m[1] - 1) = SubSeq(old_file, 1, m[1] - 1)
            /\ SubSeq(file, Len(file) - after + 1, Len(file))
               = SubSeq(old_file, m[2] + 1, Len(old_file))

====
